---- MODULE Spec2Model ----
(***************************************************************************)
(* A model of webcache.py: the memcached-coordinated caching overlay.      *)
(*                                                                         *)
(* One URL is modelled (every key of the store is derived from the URL, so *)
(* URLs do not interact).  Each memcached round trip of a worker is one    *)
(* atomic step; the Python between two round trips is folded into the step *)
(* that follows it.  The store may evict the metadata key or a content key *)
(* at any moment.                                                          *)
(*                                                                         *)
(* Time is the integer part of unixtime().  A session is the reading of    *)
(* the microsecond clock at a metadata creation; readings taken by         *)
(* different creations are taken to differ, so a session is modelled as    *)
(* the ordinal of the reading.                                             *)
(***************************************************************************)
EXTENDS Integers, Sequences, FiniteSets, TLC

\* ------------------------------------------------------------------ bounds
NumWorkers == 2
MaxRequests == 2
MaxEvictions == 1
MaxTicks == 1
MaxWarmEvictions == 2
MaxSeqRequests == 3
MaxSeqTicks == 3
MaxRetryEvictions == 1
MaxReservation == 22
MaxBacklog == 8
MaxQuietRequests == 3
MaxQuietTicks == 2

\* ------------------------------------------------------- program constants
SLEEP_MULTIPLY_INTERVAL == 5
SLEEP_MAX_SECONDS == 30
UPDATE_MAX_ATTEMPTS == 20
EXPIRE_SECS == 30
DROP_NOT_OK_STATUS == TRUE

None == [none |-> TRUE]
NoHeader == [absent |-> TRUE]
Malformed == [malformed |-> TRUE]
NoEtag == 0
URL == "/url1"

Workers == 1..NumWorkers

\* The clock advances in jumps of this many seconds: one jump expires an entry
\* and passes every backoff deadline.
TickStep == EXPIRE_SECS + 1

\* ------------------------------------------------------------ pure helpers
\* An HTTP date string carries whole seconds in a fixed format.
make_http_date(t) == [gmt |-> t]

\* time.strptime raises ValueError on a string that is not in the format.
CanParse(http_date_str) == "gmt" \in DOMAIN http_date_str

parse_http_date(http_date_str) == http_date_str.gmt

sha256_digest(content) == [sha256 |-> content]

Min(a, b) == IF a <= b THEN a ELSE b

make_metadata_key(url) == <<"metadata", url>>

\* Mutant of make_content_key: the key is built from the session alone.
make_content_key_by_session(url, reservation_token) ==
    <<"body", url, reservation_token.session, 0>>

make_content_key(url, reservation_token) ==
    <<"body", url, reservation_token.session, reservation_token.reservation>>

\* Mutant of time_or_last_modified_header: the origin's header is taken as it is.
time_or_last_modified_header_trusts_origin(unixtime, headers) ==
    IF "Last-Modified" \in DOMAIN headers
    THEN make_http_date(parse_http_date(headers["Last-Modified"]))
    ELSE make_http_date(unixtime)

\* min(time, Last-Modified header) as an HTTP date; the time alone without one.
time_or_last_modified_header(unixtime, headers) ==
    IF "Last-Modified" \in DOMAIN headers
    THEN make_http_date(Min(unixtime, parse_http_date(headers["Last-Modified"])))
    ELSE make_http_date(unixtime)

\* EntryContent.from_server_response: the content record and the key it goes under.
content_from_server_response(response, url, reservation_token) ==
    [content_key |-> make_content_key(url, reservation_token),
     status |-> response.status,
     url |-> url,
     headers |-> response.headers,
     content |-> response.content]

\* EntryContent.store_content writes these four fields.
stored_content(content_entry) ==
    [status |-> content_entry.status,
     url |-> content_entry.url,
     headers |-> content_entry.headers,
     content |-> content_entry.content]

\* EntryContent.from_cache: the stored fields under the key they were read from.
content_from_cache(cache_key, cache_entry) ==
    [content_key |-> cache_key,
     status |-> cache_entry.status,
     url |-> cache_entry.url,
     headers |-> cache_entry.headers,
     content |-> cache_entry.content]

\* Mutant of new_reservation: the placeholder names the content key of its token.
new_reservation_with_key(url, session) ==
    [valid |-> FALSE,
     url |-> url,
     sha256_digest |-> None,
     session |-> session,
     reservation |-> 1,
     last_noted |-> 0,
     content_key |-> <<"body", url, session, 1>>]

\* EntryMetadata.new_reservation: a placeholder, first in line.
new_reservation(url, session) ==
    [valid |-> FALSE,
     url |-> url,
     sha256_digest |-> None,
     session |-> session,
     reservation |-> 1,
     last_noted |-> 0]

\* EntryMetadata.from_server_response: a valid entry built from a response.
metadata_from_server_response(url, content_entry, session, unixtime) ==
    [valid |-> TRUE,
     url |-> url,
     fetched |-> unixtime,
     session |-> session,
     last_modified |-> time_or_last_modified_header(unixtime, content_entry.headers),
     sha256_digest |-> sha256_digest(content_entry.content),
     reservation |-> 0,
     last_noted |-> 0,
     content_key |-> content_entry.content_key]

\* Mutant of update_for_server_response: last_noted is set one past the
\* reservation that was read.
update_for_server_response_notes_next(data, content_entry, update_time) ==
    LET common == [fetched |-> update_time,
                   last_noted |-> data.reservation + 1,
                   valid |-> TRUE,
                   content_key |-> content_entry.content_key] @@ data
    IN  IF data.sha256_digest # sha256_digest(content_entry.content)
        THEN [last_modified |-> time_or_last_modified_header(update_time, content_entry.headers),
              sha256_digest |-> sha256_digest(content_entry.content),
              content_key |-> content_entry.content_key] @@ common
        ELSE common

\* Mutant of update_for_server_response: last_modified is recomputed whether
\* or not the digest changed.
update_for_server_response_restamps(data, content_entry, update_time) ==
    [fetched |-> update_time,
     last_noted |-> data.reservation,
     valid |-> TRUE,
     content_key |-> content_entry.content_key,
     last_modified |-> time_or_last_modified_header(update_time, content_entry.headers),
     sha256_digest |-> sha256_digest(content_entry.content)] @@ data

\* Mutant of update_for_server_response: last_noted is set to the reservation
\* of the worker's own token, the one in its content key.
update_for_server_response_notes_own(data, content_entry, update_time) ==
    LET common == [fetched |-> update_time,
                   last_noted |-> content_entry.content_key[4],
                   valid |-> TRUE,
                   content_key |-> content_entry.content_key] @@ data
    IN  IF data.sha256_digest # sha256_digest(content_entry.content)
        THEN [last_modified |-> time_or_last_modified_header(update_time, content_entry.headers),
              sha256_digest |-> sha256_digest(content_entry.content),
              content_key |-> content_entry.content_key] @@ common
        ELSE common

\* EntryMetadata.update_for_server_response on the fields read from the cache.
update_for_server_response(data, content_entry, update_time) ==
    LET common == [fetched |-> update_time,
                   last_noted |-> data.reservation,
                   valid |-> TRUE,
                   content_key |-> content_entry.content_key] @@ data
    IN  IF data.sha256_digest # sha256_digest(content_entry.content)
        THEN [last_modified |-> time_or_last_modified_header(update_time, content_entry.headers),
              sha256_digest |-> sha256_digest(content_entry.content),
              content_key |-> content_entry.content_key] @@ common
        ELSE common

\* Mutant of bump_reservation: the bump also notes the new reservation.
bump_reservation_notes(data) ==
    [data EXCEPT !.reservation = @ + 1, !.last_noted = data.reservation + 1]

\* Mutant of bump_reservation: the reservation is written back as it was read.
bump_reservation_keeps(data) == data

\* Mutant of bump_reservation: the entry reserved on is marked as not valid.
bump_reservation_invalidates(data) == [data EXCEPT !.reservation = @ + 1, !.valid = FALSE]

\* update_reservation's change to a metadata read from the cache.
bump_reservation(data) == [data EXCEPT !.reservation = @ + 1]

\* Mutant of won_reservation: every reservation wins.
won_reservation_always(data) == TRUE

\* Mutant of won_reservation: the second in line wins as well.
won_reservation_first_two(data) == data.reservation <= data.last_noted + 2

\* update_reservation's won flag for the metadata it wrote.
won_reservation(data) == data.reservation = data.last_noted + 1

\* Mutant of backoff_limit: the range grows with the backlog without a cap.
backoff_limit_uncapped(data) ==
    (data.reservation - data.last_noted) * SLEEP_MULTIPLY_INTERVAL

\* compete_for_cache_update: the upper end of the range randint draws the backoff from.
backoff_limit(data) ==
    Min((data.reservation - data.last_noted) * SLEEP_MULTIPLY_INTERVAL, SLEEP_MAX_SECONDS)

\* randint(a, b): the draws followed are the two ends of the range.
randint(a, b) == {a, b}

\* ---------------------------------------------------------------- responses
\* A dict of headers is a function from the header names it holds to their
\* values.  A WSGIResponse has the status, the list of (name, value) pairs
\* add_header has appended, and the content list, which is empty until
\* set_content_body puts the body in it.

\* Mutant of drop_headers: Content-Encoding is passed on.
drop_headers_short ==
    {"Last-Modified", "Vary", "Server", "Keep-Alive", "Connection", "Transfer-Encoding"}

\* The headers that are not passed on from the origin's response.
drop_headers ==
    {"Last-Modified", "Vary", "Server", "Keep-Alive", "Connection", "Transfer-Encoding",
     "Content-Encoding"}

\* The (name, value) pairs of the headers named, in the order the dict yields them.
RECURSIVE header_items(_, _)
header_items(headers, names) ==
    IF names = {}
    THEN << >>
    ELSE LET header == CHOOSE n \in names : TRUE
         IN  <<<<header, headers[header]>>>> \o header_items(headers, names \ {header})

\* WSGIResponse.from_cache_metadata: Last-Modified from the metadata, then the
\* content's headers but those of drop_headers; status and body from the content.
from_cache_metadata(data, content_entry) ==
    [status |-> content_entry.status,
     headers |-> <<<<"Last-Modified", data.last_modified>>>> \o
                 header_items(content_entry.headers,
                              {header \in DOMAIN content_entry.headers :
                                  header \notin drop_headers}),
     content |-> <<content_entry.content>>]

not_modified_response ==
    [status |-> "304 Not Modified", headers |-> << >>, content |-> << >>]

from_internal_error ==
    [status |-> "500 Internal Server Error", headers |-> << >>, content |-> << >>]

\* An exception other than ConsistencyError leaves handle_application.
uncaught_exception(kind) ==
    [status |-> kind, headers |-> << >>, content |-> << >>]

\* Mutant of metadata_verdict: an entry fetched exactly EXPIRE_SECS ago counts
\* as expired.
metadata_verdict_expires_early(data, request) ==
    IF data = None THEN "miss"
    ELSE IF ~data.valid THEN "miss"
    ELSE IF request.time >= data.fetched + EXPIRE_SECS THEN "miss"
    ELSE IF request.if_modified_since # NoHeader
         THEN IF ~CanParse(request.if_modified_since) THEN "raise"
              ELSE IF parse_http_date(request.if_modified_since)
                        >= parse_http_date(data.last_modified)
                   THEN "304"
                   ELSE "content"
    ELSE "content"

\* Mutant of metadata_verdict: a client date equal to last_modified is taken
\* as too old.
metadata_verdict_strictly_newer(data, request) ==
    IF data = None THEN "miss"
    ELSE IF ~data.valid THEN "miss"
    ELSE IF request.time > data.fetched + EXPIRE_SECS THEN "miss"
    ELSE IF request.if_modified_since # NoHeader
         THEN IF ~CanParse(request.if_modified_since) THEN "raise"
              ELSE IF parse_http_date(request.if_modified_since)
                        > parse_http_date(data.last_modified)
                   THEN "304"
                   ELSE "content"
    ELSE "content"

\* ------------------------------------------------- serve-from-cache predicate
\* check_for_cache_response up to the content lookup:
\*   "miss"    return None before looking at the content
\*   "304"     return the 304 response
\*   "raise"   parse_http_date raises on the request's If-Modified-Since
\*   "content" go on to the content lookup
metadata_verdict(data, request) ==
    IF data = None THEN "miss"
    ELSE IF ~data.valid THEN "miss"
    ELSE IF request.time > data.fetched + EXPIRE_SECS THEN "miss"
    ELSE IF request.if_modified_since # NoHeader
         THEN IF ~CanParse(request.if_modified_since) THEN "raise"
              ELSE IF parse_http_date(request.if_modified_since)
                        >= parse_http_date(data.last_modified)
                   THEN "304"
                   ELSE "content"
    ELSE "content"

\* check_for_cache_response as a whole, given what the content key holds:
\* a response, None, or the exception it raises.
check_for_cache_response(data, content_entry, request) ==
    LET v == metadata_verdict(data, request)
    IN  CASE v = "miss" -> None
          [] v = "304" -> not_modified_response
          [] v = "raise" -> uncaught_exception("ValueError")
          [] OTHER -> IF content_entry # None
                      THEN from_cache_metadata(data, content_entry)
                      ELSE None

\* ------------------------------------------------------------------- state
VARIABLES
    mc_metadata,        \* the store's entry under metadata_<url>: None or [data, etag]
    mc_content,         \* the store's content entries: content key -> stored record
    last_metadata,      \* the metadata most recently held under the key (kept after removal)
    clock_reads,        \* how many sessions have been drawn from the clock
    now,                \* unixtime(), whole seconds
    evictions,          \* evictions so far
    requests,           \* requests received so far
    origin_requests,    \* requests issued to the origin so far
    pc,                 \* each worker's position in handle_request
    request,            \* each worker's WSGIRequest
    cache_metadata,     \* each worker's EntryMetadata: None or [data, etag, content_entry]
    attempts,           \* each worker's failed iterations of the current loop
    won,                \* each worker's won flag from update_reservation
    reservation_token,  \* each worker's (session, reservation)
    stop,               \* each worker's backoff deadline
    server_response,    \* each worker's origin response
    response            \* each worker's WSGIResponse

store_vars == <<mc_metadata, mc_content, last_metadata>>
env_vars == <<now, evictions, requests, origin_requests>>
worker_vars == <<pc, request, cache_metadata, attempts, won, reservation_token, stop,
                 server_response, response>>
vars == <<store_vars, clock_reads, env_vars, worker_vars>>

\* ------------------------------------------------------------------ inputs
IfModifiedSinceValues == {NoHeader, Malformed, make_http_date(0)}

\* An OK response of the origin, with a Last-Modified header or with no header.
OkResponse(content, last_modified) ==
    [ok |-> TRUE, status |-> "200 OK", content |-> content,
     headers |-> IF last_modified = NoHeader
                 THEN << >>
                 ELSE ("Last-Modified" :> last_modified)]

NotOkResponse ==
    [ok |-> FALSE, status |-> "500 UNAVAILABLE", content |-> "", headers |-> << >>]

\* Headers of the origin besides Last-Modified: one that is dropped, one that is not.
OtherHeaders == ("Vary" :> "Accept-Encoding") @@ ("Content-Type" :> "text/html")

OriginResponses ==
    {OkResponse("stuff", NoHeader),
     OkResponse("stuff", make_http_date(TickStep - 1)),
     [OkResponse("other stuff", make_http_date(TickStep - 1))
         EXCEPT !.headers = @ @@ OtherHeaders],
     NotOkResponse}

\* ------------------------------------------------------------ the KV store
\* gets: the value and its cas token, or (None, None).
mc_gets == IF mc_metadata = None THEN [data |-> None, etag |-> NoEtag] ELSE mc_metadata

\* get on a content key.
mc_get(key) == IF key \in DOMAIN mc_content
               THEN content_from_cache(key, mc_content[key])
               ELSE None

\* The cas token of a newly written value differs from every token a worker
\* still holds from an earlier gets, and from the one it replaces.
cas_unique ==
    LET held == {mc_gets.etag} \cup
                {cache_metadata[w].etag : w \in {v \in Workers : cache_metadata[v] # None}}
    IN  CHOOSE n \in 1..(NumWorkers + 2) : n \notin held

\* A successful write of the metadata key: the value gets a fresh cas token.
WriteMetadata(data) ==
    /\ mc_metadata' = [data |-> data, etag |-> cas_unique]
    /\ last_metadata' = data

\* The content record a worker builds from its origin response and its token.
own_content(w) == content_from_server_response(server_response[w], URL, reservation_token[w])

Init ==
    /\ mc_metadata = None
    /\ mc_content = << >>
    /\ last_metadata = None
    /\ clock_reads = 0
    /\ now = 0
    /\ evictions = 0
    /\ requests = 0
    /\ origin_requests = 0
    /\ pc = [w \in Workers |-> "idle"]
    /\ request = [w \in Workers |-> None]
    /\ cache_metadata = [w \in Workers |-> None]
    /\ attempts = [w \in Workers |-> 0]
    /\ won = [w \in Workers |-> FALSE]
    /\ reservation_token = [w \in Workers |-> None]
    /\ stop = [w \in Workers |-> 0]
    /\ server_response = [w \in Workers |-> None]
    /\ response = [w \in Workers |-> None]

\* --------------------------------------------------------- worker bookkeeping
Goto(w, label) == pc' = [pc EXCEPT ![w] = label]

\* handle_application hands the response to the client; the request's locals die.
Finish(w, wsgi_response) ==
    /\ pc' = [pc EXCEPT ![w] = "done"]
    /\ response' = [response EXCEPT ![w] = wsgi_response]
    /\ request' = [request EXCEPT ![w] = None]
    /\ cache_metadata' = [cache_metadata EXCEPT ![w] = None]
    /\ attempts' = [attempts EXCEPT ![w] = 0]
    /\ stop' = [stop EXCEPT ![w] = 0]
    /\ server_response' = [server_response EXCEPT ![w] = None]

\* handle_application: a request arrives at a free worker, while fewer than
\* `limit` requests have been received.
StartRequestUpTo(w, limit) ==
    /\ pc[w] \in {"idle", "done"}
    /\ \A v \in Workers : v < w => pc[v] # "idle"
    /\ requests < limit
    /\ requests' = requests + 1
    /\ \E ims \in IfModifiedSinceValues :
         request' = [request EXCEPT ![w] = [time |-> now, if_modified_since |-> ims]]
    /\ pc' = [pc EXCEPT ![w] = "check1"]
    /\ response' = [response EXCEPT ![w] = None]
    /\ won' = [won EXCEPT ![w] = FALSE]
    /\ reservation_token' = [reservation_token EXCEPT ![w] = None]
    /\ UNCHANGED <<store_vars, clock_reads, now, evictions, origin_requests, cache_metadata,
                   attempts, stop, server_response>>

StartRequest(w) == StartRequestUpTo(w, MaxRequests)

\* ------------------------------------------------ check_for_cache_response
\* The gets of the metadata and the checks on it.  `miss` is where
\* handle_request goes when None is returned, `content` the content lookup.
CheckMetadata(w, here, miss, content) ==
    /\ pc[w] = here
    /\ LET got == mc_gets
           v == metadata_verdict(got.data, request[w])
       IN  CASE v = "miss" ->
                  /\ Goto(w, miss)
                  /\ cache_metadata' = [cache_metadata EXCEPT ![w] = None]
                  /\ UNCHANGED <<request, attempts, stop, server_response, response>>
             [] v = "content" ->
                  /\ Goto(w, content)
                  /\ cache_metadata' = [cache_metadata EXCEPT ![w] =
                        [data |-> got.data, etag |-> got.etag, content_entry |-> None]]
                  /\ UNCHANGED <<request, attempts, stop, server_response, response>>
             [] v = "304" -> Finish(w, not_modified_response)
             [] OTHER -> Finish(w, uncaught_exception("ValueError"))
    /\ UNCHANGED <<store_vars, clock_reads, env_vars, won, reservation_token>>

\* The lazy get of the content and the response built from it.
CheckContent(w, here, miss) ==
    /\ pc[w] = here
    /\ LET content_entry == mc_get(cache_metadata[w].data.content_key)
       IN  IF content_entry # None
           THEN Finish(w, from_cache_metadata(cache_metadata[w].data, content_entry))
           ELSE /\ Goto(w, miss)
                /\ cache_metadata' = [cache_metadata EXCEPT ![w] = None]
                /\ UNCHANGED <<request, attempts, stop, server_response, response>>
    /\ UNCHANGED <<store_vars, clock_reads, env_vars, won, reservation_token>>

\* handle_request: the first check of the cache.
FirstCheck(w) == CheckMetadata(w, "check1", "ur_gets", "check1_content")

\* Mutant of FirstCheckContent: the content served is removed from the store.
FirstCheckContent_deletes(w) ==
    /\ pc[w] = "check1_content"
    /\ LET key == cache_metadata[w].data.content_key
           content_entry == mc_get(key)
       IN  IF content_entry # None
           THEN /\ Finish(w, from_cache_metadata(cache_metadata[w].data, content_entry))
                /\ mc_content' = [k \in DOMAIN mc_content \ {key} |-> mc_content[k]]
           ELSE /\ Goto(w, "ur_gets")
                /\ cache_metadata' = [cache_metadata EXCEPT ![w] = None]
                /\ UNCHANGED <<mc_content, request, attempts, stop, server_response, response>>
    /\ UNCHANGED <<mc_metadata, last_metadata, clock_reads, env_vars, won, reservation_token>>

FirstCheckContent(w) == CheckContent(w, "check1_content", "ur_gets")

\* Mutant of Recheck: the loser goes to the origin without checking the cache again.
Recheck_skipped(w) ==
    /\ pc[w] = "check2"
    /\ Goto(w, "issue")
    /\ UNCHANGED <<store_vars, clock_reads, env_vars, request, cache_metadata, attempts, won,
                   reservation_token, stop, server_response, response>>

\* handle_request: the loser's check after its backoff.
Recheck(w) == CheckMetadata(w, "check2", "issue", "check2_content")

RecheckContent(w) == CheckContent(w, "check2_content", "issue")

\* ------------------------------------------------------- update_reservation
\* Mutant of RetryOrRaise: the loop goes round again however often it has failed.
RetryOrRaise_unbounded(w, again) ==
    /\ Goto(w, again)
    /\ attempts' = [attempts EXCEPT ![w] = @ + 1]
    /\ cache_metadata' = [cache_metadata EXCEPT ![w] = None]
    /\ UNCHANGED <<request, won, reservation_token, stop, server_response, response>>

\* A failed store_metadata: the next iteration, or ConsistencyError (a 500)
\* once the loop has run UPDATE_MAX_ATTEMPTS times.
RetryOrRaise(w, again) ==
    IF attempts[w] + 1 >= UPDATE_MAX_ATTEMPTS
    THEN /\ Finish(w, from_internal_error)
         /\ UNCHANGED <<won, reservation_token>>
    ELSE /\ Goto(w, again)
         /\ attempts' = [attempts EXCEPT ![w] = @ + 1]
         /\ cache_metadata' = [cache_metadata EXCEPT ![w] = None]
         /\ UNCHANGED <<request, won, reservation_token, stop, server_response, response>>

\* update_reservation returns (metadata, won); compete_for_cache_update takes
\* the token from it and, when lost, draws the backoff deadline.
ReservationStored(w, data) ==
    /\ won' = [won EXCEPT ![w] = won_reservation(data)]
    /\ reservation_token' = [reservation_token EXCEPT ![w] =
            [session |-> data.session, reservation |-> data.reservation]]
    /\ attempts' = [attempts EXCEPT ![w] = 0]
    /\ cache_metadata' = [cache_metadata EXCEPT ![w] = None]
    /\ IF won_reservation(data)
       THEN /\ Goto(w, "issue")
            /\ UNCHANGED stop
       ELSE /\ Goto(w, "wait")
            /\ \E s \in randint(0, backoff_limit(data)) : stop' = [stop EXCEPT ![w] = now + s]
    /\ UNCHANGED <<request, server_response, response>>

\* The gets at the top of the loop: bump what was read, or build a reservation.
UpdateReservationGets(w) ==
    /\ pc[w] = "ur_gets"
    /\ LET got == mc_gets
       IN  IF got.data # None
           THEN /\ cache_metadata' = [cache_metadata EXCEPT ![w] =
                      [data |-> bump_reservation(got.data), etag |-> got.etag,
                       content_entry |-> None]]
                /\ Goto(w, "ur_cas")
                /\ UNCHANGED clock_reads
           ELSE /\ cache_metadata' = [cache_metadata EXCEPT ![w] =
                      [data |-> new_reservation(URL, clock_reads + 1), etag |-> NoEtag,
                       content_entry |-> None]]
                /\ clock_reads' = clock_reads + 1
                /\ Goto(w, "ur_add")
    /\ UNCHANGED <<store_vars, env_vars, request, attempts, won, reservation_token, stop,
                   server_response, response>>

\* store_metadata with a token: cas.  NotFound (the key is gone) leads to add.
UpdateReservationCas(w) ==
    /\ pc[w] = "ur_cas"
    /\ IF mc_metadata = None
       THEN /\ Goto(w, "ur_add")
            /\ UNCHANGED <<store_vars, request, cache_metadata, attempts, won,
                           reservation_token, stop, server_response, response>>
       ELSE IF mc_metadata.etag = cache_metadata[w].etag
       THEN /\ WriteMetadata(cache_metadata[w].data)
            /\ ReservationStored(w, cache_metadata[w].data)
            /\ UNCHANGED mc_content
       ELSE /\ RetryOrRaise(w, "ur_gets")
            /\ UNCHANGED store_vars
    /\ UNCHANGED <<clock_reads, env_vars>>

\* store_metadata without a token, or after NotFound: add.
UpdateReservationAdd(w) ==
    /\ pc[w] = "ur_add"
    /\ IF mc_metadata = None
       THEN /\ WriteMetadata(cache_metadata[w].data)
            /\ ReservationStored(w, cache_metadata[w].data)
            /\ UNCHANGED mc_content
       ELSE /\ RetryOrRaise(w, "ur_gets")
            /\ UNCHANGED store_vars
    /\ UNCHANGED <<clock_reads, env_vars>>

\* ------------------------------------------------- compete_for_cache_update
\* Mutant of Poll: only a missing metadata or the deadline ends the wait.
Poll_until_missing(w) ==
    /\ pc[w] = "wait"
    /\ IF stop[w] > now
       THEN LET got == mc_gets
            IN  IF got.data = None
                THEN Goto(w, "check2") /\ stop' = [stop EXCEPT ![w] = 0]
                ELSE UNCHANGED <<pc, stop>>
       ELSE Goto(w, "check2") /\ stop' = [stop EXCEPT ![w] = 0]
    /\ UNCHANGED <<store_vars, clock_reads, env_vars, request, cache_metadata, attempts, won,
                   reservation_token, server_response, response>>

\* One turn of the backoff loop: past the deadline the loop ends; before it
\* the worker sleeps, reloads the metadata and leaves when it is missing or valid.
Poll(w) ==
    /\ pc[w] = "wait"
    /\ IF stop[w] > now
       THEN LET got == mc_gets
            IN  IF got.data = None \/ got.data.valid
                THEN Goto(w, "check2") /\ stop' = [stop EXCEPT ![w] = 0]
                ELSE UNCHANGED <<pc, stop>>
       ELSE Goto(w, "check2") /\ stop' = [stop EXCEPT ![w] = 0]
    /\ UNCHANGED <<store_vars, clock_reads, env_vars, request, cache_metadata, attempts, won,
                   reservation_token, server_response, response>>

\* ------------------------------------------------------ the origin request
IssueServerRequest(w) ==
    /\ pc[w] = "issue"
    /\ \E r \in OriginResponses :
         /\ server_response' = [server_response EXCEPT ![w] = r]
         /\ IF DROP_NOT_OK_STATUS /\ ~r.ok
            THEN Goto(w, "uc_drop")
            ELSE Goto(w, "uc_set")
    /\ origin_requests' = origin_requests + 1
    /\ UNCHANGED <<store_vars, clock_reads, now, evictions, requests, request, cache_metadata,
                   attempts, won, reservation_token, stop, response>>

\* -------------------------------------------------------------- update_cache
\* Mutant of UpdateCacheDrop: the metadata is returned without the delete.
UpdateCacheDrop_no_delete(w) ==
    /\ pc[w] = "uc_drop"
    /\ cache_metadata' = [cache_metadata EXCEPT ![w] =
          [data |-> metadata_from_server_response(URL, own_content(w), clock_reads + 1, now),
           etag |-> NoEtag, content_entry |-> own_content(w)]]
    /\ clock_reads' = clock_reads + 1
    /\ Goto(w, "respond")
    /\ UNCHANGED <<store_vars, env_vars, request, attempts, won,
                   reservation_token, stop, server_response, response>>

\* Mutant of UpdateCacheDrop: the not-OK body is put in the store as well.
UpdateCacheDrop_stores_content(w) ==
    /\ pc[w] = "uc_drop"
    /\ cache_metadata' = [cache_metadata EXCEPT ![w] =
          [data |-> metadata_from_server_response(URL, own_content(w), clock_reads + 1, now),
           etag |-> NoEtag, content_entry |-> own_content(w)]]
    /\ clock_reads' = clock_reads + 1
    /\ mc_metadata' = None
    /\ mc_content' = (own_content(w).content_key :> stored_content(own_content(w))) @@ mc_content
    /\ Goto(w, "respond")
    /\ UNCHANGED <<last_metadata, env_vars, request, attempts, won,
                   reservation_token, stop, server_response, response>>

\* The not-OK branch: a metadata built from the response is deleted from the
\* store (whatever the key holds) and returned.
UpdateCacheDrop(w) ==
    /\ pc[w] = "uc_drop"
    /\ cache_metadata' = [cache_metadata EXCEPT ![w] =
          [data |-> metadata_from_server_response(URL, own_content(w), clock_reads + 1, now),
           etag |-> NoEtag, content_entry |-> own_content(w)]]
    /\ clock_reads' = clock_reads + 1
    /\ mc_metadata' = None
    /\ Goto(w, "respond")
    /\ UNCHANGED <<mc_content, last_metadata, env_vars, request, attempts, won,
                   reservation_token, stop, server_response, response>>

\* A store_content that stores nothing.
UpdateCacheSet_skips(w) ==
    /\ pc[w] = "uc_set"
    /\ Goto(w, "uc_gets")
    /\ UNCHANGED <<store_vars, clock_reads, env_vars, request, cache_metadata, attempts, won,
                   reservation_token, stop, server_response, response>>

\* store_content: set under the worker's own content key.
UpdateCacheSet(w) ==
    /\ pc[w] = "uc_set"
    /\ mc_content' = (own_content(w).content_key :> stored_content(own_content(w))) @@ mc_content
    /\ Goto(w, "uc_gets")
    /\ UNCHANGED <<mc_metadata, last_metadata, clock_reads, env_vars, request,
                   cache_metadata, attempts, won, reservation_token, stop, server_response,
                   response>>

\* The metadata to be written over the one read, with the worker's own content.
UpdatedMetadata(w, got) ==
    [data |-> update_for_server_response(got.data, own_content(w), now),
     etag |-> got.etag, content_entry |-> own_content(w)]

\* The gets at the top of the loop, and check_for_cache_response on what it
\* returned, up to the content lookup.
UpdateCacheGets(w) ==
    /\ pc[w] = "uc_gets"
    /\ LET got == mc_gets
           v == metadata_verdict(got.data, request[w])
       IN  IF got.data = None
           THEN /\ cache_metadata' = [cache_metadata EXCEPT ![w] =
                      [data |-> metadata_from_server_response(URL, own_content(w),
                                                              clock_reads + 1, now),
                       etag |-> NoEtag, content_entry |-> own_content(w)]]
                /\ clock_reads' = clock_reads + 1
                /\ Goto(w, "uc_add")
                /\ UNCHANGED <<request, attempts, stop, server_response, response>>
           ELSE /\ UNCHANGED clock_reads
                /\ CASE v = "miss" ->
                          /\ cache_metadata' = [cache_metadata EXCEPT ![w] = UpdatedMetadata(w, got)]
                          /\ Goto(w, "uc_cas")
                          /\ UNCHANGED <<request, attempts, stop, server_response, response>>
                     [] v = "content" ->
                          /\ cache_metadata' = [cache_metadata EXCEPT ![w] =
                                [data |-> got.data, etag |-> got.etag, content_entry |-> None]]
                          /\ Goto(w, "uc_content")
                          /\ UNCHANGED <<request, attempts, stop, server_response, response>>
                     [] v = "304" ->
                          /\ cache_metadata' = [cache_metadata EXCEPT ![w] =
                                [data |-> got.data, etag |-> got.etag, content_entry |-> None]]
                          /\ Goto(w, "uc_delete_content")
                          /\ UNCHANGED <<request, attempts, stop, server_response, response>>
                     [] OTHER -> Finish(w, uncaught_exception("ValueError"))
    /\ UNCHANGED <<store_vars, env_vars, won, reservation_token>>

\* check_for_cache_response's content lookup inside update_cache.
UpdateCacheContent(w) ==
    /\ pc[w] = "uc_content"
    /\ LET content_entry == mc_get(cache_metadata[w].data.content_key)
       IN  IF content_entry # None
           THEN /\ cache_metadata' = [cache_metadata EXCEPT ![w].content_entry = content_entry]
                /\ Goto(w, "uc_delete_content")
           ELSE /\ cache_metadata' = [cache_metadata EXCEPT ![w] =
                      UpdatedMetadata(w, cache_metadata[w])]
                /\ Goto(w, "uc_cas")
    /\ UNCHANGED <<store_vars, clock_reads, env_vars, request, attempts, won, reservation_token,
                   stop, server_response, response>>

\* Mutant of UpdateCacheDeleteContent: the worker's own content is left in the store.
UpdateCacheDeleteContent_keeps(w) ==
    /\ pc[w] = "uc_delete_content"
    /\ Goto(w, "respond")
    /\ UNCHANGED <<store_vars, clock_reads, env_vars, request,
                   cache_metadata, attempts, won, reservation_token, stop, server_response,
                   response>>

\* The cache can already serve: delete_content on the worker's own key, and
\* return the metadata that was read.
UpdateCacheDeleteContent(w) ==
    /\ pc[w] = "uc_delete_content"
    /\ mc_content' = [k \in DOMAIN mc_content \ {own_content(w).content_key} |-> mc_content[k]]
    /\ Goto(w, "respond")
    /\ UNCHANGED <<mc_metadata, last_metadata, clock_reads, env_vars, request,
                   cache_metadata, attempts, won, reservation_token, stop, server_response,
                   response>>

\* store_metadata of the updated metadata: cas; NotFound leads to add.
UpdateCacheCas(w) ==
    /\ pc[w] = "uc_cas"
    /\ IF mc_metadata = None
       THEN /\ Goto(w, "uc_add")
            /\ UNCHANGED <<store_vars, request, cache_metadata, attempts, stop,
                           server_response, response>>
       ELSE IF mc_metadata.etag = cache_metadata[w].etag
       THEN /\ WriteMetadata(cache_metadata[w].data)
            /\ Goto(w, "respond")
            /\ UNCHANGED <<mc_content, request, cache_metadata, attempts, stop,
                           server_response, response>>
       ELSE /\ RetryOrRaise(w, "uc_gets")
            /\ UNCHANGED store_vars
    /\ UNCHANGED <<clock_reads, env_vars, won, reservation_token>>

\* store_metadata of a new metadata, or after NotFound: add.
UpdateCacheAdd(w) ==
    /\ pc[w] = "uc_add"
    /\ IF mc_metadata = None
       THEN /\ WriteMetadata(cache_metadata[w].data)
            /\ Goto(w, "respond")
            /\ UNCHANGED <<mc_content, request, cache_metadata, attempts, stop,
                           server_response, response>>
       ELSE /\ RetryOrRaise(w, "uc_gets")
            /\ UNCHANGED store_vars
    /\ UNCHANGED <<clock_reads, env_vars, won, reservation_token>>

\* handle_request's last line: WSGIResponse.from_cache_metadata on what
\* update_cache returned.  The content is the one the metadata object already
\* holds, or is loaded from the store now; a missing one raises AttributeError.
Respond(w) ==
    /\ pc[w] = "respond"
    /\ LET content_entry ==
               IF cache_metadata[w].content_entry # None
               THEN cache_metadata[w].content_entry
               ELSE mc_get(cache_metadata[w].data.content_key)
       IN  IF content_entry # None
           THEN Finish(w, from_cache_metadata(cache_metadata[w].data, content_entry))
           ELSE Finish(w, uncaught_exception("AttributeError"))
    /\ UNCHANGED <<store_vars, clock_reads, env_vars, won, reservation_token>>

\* ------------------------------------------------------------ environment
\* memcached evicts the metadata entry.
EvictMetadata(limit) ==
    /\ mc_metadata # None
    /\ evictions < limit
    /\ evictions' = evictions + 1
    /\ mc_metadata' = None
    /\ UNCHANGED <<mc_content, last_metadata, clock_reads, now, requests, origin_requests,
                   worker_vars>>

\* memcached evicts a content entry.
EvictContent(limit) ==
    /\ evictions < limit
    /\ evictions' = evictions + 1
    /\ \E key \in DOMAIN mc_content :
         mc_content' = [k \in DOMAIN mc_content \ {key} |-> mc_content[k]]
    /\ UNCHANGED <<mc_metadata, last_metadata, clock_reads, now, requests, origin_requests,
                   worker_vars>>

\* Time passes, up to `limit` jumps of the clock.
TickUpTo(limit) ==
    /\ now < limit * TickStep
    /\ now' = now + TickStep
    /\ UNCHANGED <<store_vars, clock_reads, evictions, requests, origin_requests, worker_vars>>

Tick == TickUpTo(MaxTicks)

\* One step of a worker.
WorkerStep(w) ==
    \/ StartRequest(w)
    \/ FirstCheck(w)
    \/ FirstCheckContent(w)
    \/ UpdateReservationGets(w)
    \/ UpdateReservationCas(w)
    \/ UpdateReservationAdd(w)
    \/ Poll(w)
    \/ Recheck(w)
    \/ RecheckContent(w)
    \/ IssueServerRequest(w)
    \/ UpdateCacheDrop(w)
    \/ UpdateCacheSet(w)
    \/ UpdateCacheGets(w)
    \/ UpdateCacheContent(w)
    \/ UpdateCacheDeleteContent(w)
    \/ UpdateCacheCas(w)
    \/ UpdateCacheAdd(w)
    \/ Respond(w)

Next ==
    \/ \E w \in Workers : WorkerStep(w)
    \/ EvictMetadata(MaxEvictions)
    \/ EvictContent(MaxEvictions)
    \/ Tick

Spec == Init /\ [][Next]_vars

\* ------------------------------------------------- a cache that is already warm
\* The store after one request has been served from the origin and its entry
\* has expired: the state the cold start reaches by one request and one Tick.
WarmContent == content_from_server_response(OkResponse("stuff", NoHeader), URL,
                                            [session |-> 1, reservation |-> 1])

WarmMetadata == update_for_server_response(new_reservation(URL, 1), WarmContent, 0)

InitWarm ==
    /\ mc_metadata = [data |-> WarmMetadata, etag |-> 1]
    /\ mc_content = (WarmContent.content_key :> stored_content(WarmContent))
    /\ last_metadata = WarmMetadata
    /\ clock_reads = 1
    /\ now = TickStep
    /\ evictions = 0
    /\ requests = 0
    /\ origin_requests = 1
    /\ pc = [w \in Workers |-> "idle"]
    /\ request = [w \in Workers |-> None]
    /\ cache_metadata = [w \in Workers |-> None]
    /\ attempts = [w \in Workers |-> 0]
    /\ won = [w \in Workers |-> FALSE]
    /\ reservation_token = [w \in Workers |-> None]
    /\ stop = [w \in Workers |-> 0]
    /\ server_response = [w \in Workers |-> None]
    /\ response = [w \in Workers |-> None]

NextWarm ==
    \/ \E w \in Workers : WorkerStep(w)
    \/ EvictMetadata(MaxWarmEvictions)
    \/ EvictContent(MaxWarmEvictions)

SpecWarm == InitWarm /\ [][NextWarm]_vars

\* The warm start's store, clock and resting workers, as the cold start reaches them.
WarmStoreReached ==
    /\ mc_metadata # None
    /\ mc_metadata.data = WarmMetadata
    /\ mc_content = (WarmContent.content_key :> stored_content(WarmContent))
    /\ last_metadata = WarmMetadata
    /\ clock_reads = 1
    /\ now = TickStep
    /\ evictions = 0
    /\ origin_requests = 1
    /\ \A w \in Workers : pc[w] \in {"idle", "done"}

\* ------------------------------------- the serve-from-cache predicate alone
\* One worker runs the first check of a request against a store that holds any
\* of these metadata and may or may not hold the content; nothing else moves.
CheckedContent == content_from_server_response(OkResponse("stuff", NoHeader), URL,
                                               [session |-> 1, reservation |-> 1])

CheckedFetched == EXPIRE_SECS + 10

CheckedMetadata ==
    {None, new_reservation(URL, 1)} \cup
    {[update_for_server_response(new_reservation(URL, 1), CheckedContent, CheckedFetched)
         EXCEPT !.last_modified = make_http_date(lm)] : lm \in {10, CheckedFetched}}

CheckedRequests ==
    [time : {CheckedFetched - 1, CheckedFetched + EXPIRE_SECS - 1,
             CheckedFetched + EXPIRE_SECS, CheckedFetched + EXPIRE_SECS + 1},
     if_modified_since : {NoHeader, Malformed} \cup
                         {make_http_date(d) : d \in {9, 10, 11, CheckedFetched}}]

InitCheck ==
    /\ mc_metadata \in {IF data = None THEN None ELSE [data |-> data, etag |-> 1] :
                           data \in CheckedMetadata}
    /\ mc_content \in {<< >>, (CheckedContent.content_key :> stored_content(CheckedContent))}
    /\ last_metadata = mc_gets.data
    /\ clock_reads = 1
    /\ now \in {r.time : r \in CheckedRequests}
    /\ evictions = 0
    /\ requests = 1
    /\ origin_requests = 0
    /\ pc = [w \in Workers |-> IF w = 1 THEN "check1" ELSE "idle"]
    /\ request \in {[w \in Workers |-> IF w = 1 THEN r ELSE None] :
                       r \in {q \in CheckedRequests : q.time = now}}
    /\ cache_metadata = [w \in Workers |-> None]
    /\ attempts = [w \in Workers |-> 0]
    /\ won = [w \in Workers |-> FALSE]
    /\ reservation_token = [w \in Workers |-> None]
    /\ stop = [w \in Workers |-> 0]
    /\ server_response = [w \in Workers |-> None]
    /\ response = [w \in Workers |-> None]

NextCheck == FirstCheck(1) \/ FirstCheckContent(1)

SpecCheck == InitCheck /\ [][NextCheck]_vars

\* ------------------------------------------------------- a sequential run
\* Requests arrive one after the other at one worker, the store evicts nothing
\* and the origin answers every request with an OK response.  The steps are
\* those such a run takes; SeqLabels says it takes no other.
IssueOkServerRequest(w) == IssueServerRequest(w) /\ server_response'[w].ok

NextSeq ==
    \/ StartRequestUpTo(1, MaxSeqRequests)
    \/ FirstCheck(1)
    \/ FirstCheckContent(1)
    \/ UpdateReservationGets(1)
    \/ UpdateReservationCas(1)
    \/ UpdateReservationAdd(1)
    \/ IssueOkServerRequest(1)
    \/ UpdateCacheSet(1)
    \/ UpdateCacheGets(1)
    \/ UpdateCacheCas(1)
    \/ Respond(1)
    \/ TickUpTo(MaxSeqTicks)

SpecSeq == Init /\ [][NextSeq]_vars

SeqLabels ==
    pc[1] \in {"idle", "check1", "check1_content", "ur_gets", "ur_cas", "ur_add", "issue",
               "uc_set", "uc_gets", "uc_cas", "respond", "done"}

\* ------------------------------------------------- a worker under contention
\* One request at one worker, while peers keep reserving: a peer's whole
\* update_reservation (its gets and its store_metadata) is one step here.  The
\* peers never publish, so the worker never finds a valid metadata but its own;
\* RetryLabels says the request takes no step but those of NextRetry.
PeerReserves ==
    /\ mc_metadata # None => mc_metadata.data.reservation < MaxReservation
    /\ IF mc_metadata = None
       THEN /\ WriteMetadata(new_reservation(URL, clock_reads + 1))
            /\ clock_reads' = clock_reads + 1
       ELSE /\ WriteMetadata(bump_reservation(mc_metadata.data))
            /\ UNCHANGED clock_reads
    /\ UNCHANGED <<mc_content, env_vars, worker_vars>>

\* A request without If-Modified-Since has just arrived at worker 1.
InitRetry ==
    /\ mc_metadata = None
    /\ mc_content = << >>
    /\ last_metadata = None
    /\ clock_reads = 0
    /\ now = 0
    /\ evictions = 0
    /\ requests = 1
    /\ origin_requests = 0
    /\ pc = [w \in Workers |-> IF w = 1 THEN "check1" ELSE "idle"]
    /\ request = [w \in Workers |->
                     IF w = 1 THEN [time |-> 0, if_modified_since |-> NoHeader] ELSE None]
    /\ cache_metadata = [w \in Workers |-> None]
    /\ attempts = [w \in Workers |-> 0]
    /\ won = [w \in Workers |-> FALSE]
    /\ reservation_token = [w \in Workers |-> None]
    /\ stop = [w \in Workers |-> 0]
    /\ server_response = [w \in Workers |-> None]
    /\ response = [w \in Workers |-> None]

\* The origin's answer is the plain one.
RetryIssueServerRequest ==
    IssueServerRequest(1) /\ server_response'[1] = OkResponse("stuff", NoHeader)

NextRetry ==
    \/ FirstCheck(1)
    \/ UpdateReservationGets(1)
    \/ UpdateReservationCas(1)
    \/ UpdateReservationAdd(1)
    \/ Poll(1)
    \/ Recheck(1)
    \/ RetryIssueServerRequest
    \/ UpdateCacheSet(1)
    \/ UpdateCacheGets(1)
    \/ UpdateCacheCas(1)
    \/ UpdateCacheAdd(1)
    \/ Respond(1)
    \/ PeerReserves
    \/ EvictMetadata(MaxRetryEvictions)

SpecRetry == InitRetry /\ [][NextRetry]_vars

RetryLabels ==
    pc[1] \in {"check1", "ur_gets", "ur_cas", "ur_add", "wait", "check2", "issue",
               "uc_set", "uc_gets", "uc_cas", "uc_add", "respond", "done"}

\* ===================================================================== claims
\* What a worker's re-check decides on, at the step it takes.
RecheckMisses(w) ==
    \/ pc[w] = "check2" /\ metadata_verdict(mc_gets.data, request[w]) = "miss"
    \/ pc[w] = "check2_content" /\ mc_get(cache_metadata[w].data.content_key) = None

\* C1 (as written): a worker that lost the reservation contest goes on to the
\* origin only when the coordination state was lost: the metadata key is absent,
\* or holds a metadata of another session than the one the worker reserved in.
C1_LoserFetchesOnlyWhenStateLost ==
    [][\A w \in Workers :
         (pc[w] \in {"check2", "check2_content"} /\ pc'[w] = "issue")
            => \/ mc_metadata = None
               \/ mc_metadata.data.session # reservation_token[w].session]_vars

\* C1 (amended): a worker that lost the reservation contest reaches the origin
\* request only from its re-check of the cache, and only when that re-check
\* returned None; when the re-check finds a servable entry the worker leaves
\* with the cached response (304, or the 200 built from the stored content)
\* and issues no origin request.
C1_LoserFetchesOnlyAfterMiss ==
    [][\A w \in Workers :
         /\ (pc[w] # "issue" /\ pc'[w] = "issue" /\ ~won'[w])
               => pc[w] \in {"check2", "check2_content"} /\ RecheckMisses(w)
         /\ (pc[w] \in {"check2", "check2_content"} /\ pc'[w] # pc[w] /\ ~RecheckMisses(w))
               => pc'[w] \in {"check2_content", "done"}
         /\ (pc[w] = "check2_content" /\ pc'[w] # pc[w] /\ ~RecheckMisses(w))
               => /\ pc'[w] = "done"
                  /\ response'[w] = from_cache_metadata(cache_metadata[w].data,
                                        mc_get(cache_metadata[w].data.content_key))]_vars

\* C1 witness: a loser is about to issue its own origin request although the
\* reservation it lost to is still in the store, in the session it reserved in.
C1_Witness ==
    \E w \in Workers :
        /\ pc[w] = "issue"
        /\ ~won[w]
        /\ mc_metadata # None
        /\ mc_metadata.data.session = reservation_token[w].session

\* C2: no two workers hold won=true for the same reservation value of the same
\* session of the URL's metadata.
C2_NoTwoWinners ==
    \A w1, w2 \in Workers :
        (w1 # w2 /\ won[w1] /\ won[w2]) => reservation_token[w1] # reservation_token[w2]

\* C3: no two handle_request executions obtain the same (session, reservation)
\* pair, so no two workers write the same content key.
C3_TokensUnique ==
    \A w1, w2 \in Workers :
        (w1 # w2 /\ reservation_token[w1] # None /\ reservation_token[w2] # None)
            => make_content_key(URL, reservation_token[w1])
                   # make_content_key(URL, reservation_token[w2])

C5_ReservationMonotonic ==
    [][(/\ last_metadata # None
        /\ mc_metadata' # None
        /\ mc_metadata'.data.session = last_metadata.session)
          => mc_metadata'.data.reservation >= last_metadata.reservation]_vars

\* C6: a metadata written to the absent key after a removal carries another
\* session than the metadata that was stored before.
C6_RecreatedSessionDiffers ==
    [][(/\ mc_metadata = None
        /\ mc_metadata' # None
        /\ last_metadata # None)
          => mc_metadata'.data.session # last_metadata.session]_vars

\* C7: whenever a metadata with valid=true is written, the body stored under
\* its content_key at that moment (if one is stored) has the metadata's digest.
C7_DigestMatchesStoredBody ==
    [][(/\ mc_metadata' # None
        /\ mc_metadata' # mc_metadata
        /\ mc_metadata'.data.valid
        /\ mc_metadata'.data.content_key \in DOMAIN mc_content')
          => sha256_digest(mc_content'[mc_metadata'.data.content_key].content)
                 = mc_metadata'.data.sha256_digest]_vars

\* update_cache returns at the step that takes the worker to "respond".
UpdateCacheReturns(w) == pc[w] # "respond" /\ pc'[w] = "respond"

\* C8 (as written): when update_cache returns normally, after its last KV
\* operation the key is absent (not-OK path) or holds a valid metadata of the
\* returned metadata's session (OK path).
C8_ReturnedMetadataInStore ==
    [][\A w \in Workers :
         UpdateCacheReturns(w)
            => IF pc[w] = "uc_drop"
               THEN mc_metadata' = None
               ELSE /\ mc_metadata' # None
                    /\ mc_metadata'.data.valid
                    /\ mc_metadata'.data.session = cache_metadata'[w].data.session]_vars

\* C8 (amended): when update_cache returns normally, either it has just written
\* the returned metadata, which the store then holds with valid=true; or (not-OK
\* path) it has just deleted the key, which is then absent; or it returns the
\* metadata it read when it found the cache servable, which was valid=true in
\* the store at the moment of that gets and is returned as read.
C8_ReturnedMetadataWrittenOrRead ==
    [][\A w \in Workers :
         /\ UpdateCacheReturns(w)
               => pc[w] \in {"uc_drop", "uc_cas", "uc_add", "uc_delete_content"}
         /\ (UpdateCacheReturns(w) /\ pc[w] = "uc_drop") => mc_metadata' = None
         /\ (UpdateCacheReturns(w) /\ pc[w] \in {"uc_cas", "uc_add"})
               => /\ mc_metadata' # None
                  /\ mc_metadata'.data = cache_metadata'[w].data
                  /\ mc_metadata'.data.valid
         /\ (UpdateCacheReturns(w) /\ pc[w] = "uc_delete_content")
               => cache_metadata'[w] = cache_metadata[w]
         /\ (pc[w] = "uc_gets" /\ pc'[w] \in {"uc_content", "uc_delete_content"})
               => /\ cache_metadata'[w].data = mc_metadata.data
                  /\ mc_metadata.data.valid
         /\ (pc[w] = "uc_content" /\ pc'[w] = "uc_delete_content")
               => cache_metadata'[w].data = cache_metadata[w].data]_vars

\* C8 witness: update_cache has returned a peer's metadata (the servable path)
\* and the metadata key is no longer in the store.
C8_Witness ==
    \E w \in Workers :
        /\ pc[w] = "respond"
        /\ server_response[w].ok
        /\ cache_metadata[w].etag # NoEtag
        /\ cache_metadata[w].content_entry # own_content(w)
        /\ mc_metadata = None

\* The metadata and the content check_for_cache_response decides on at a step
\* of the first check.
CheckedData(w) == IF pc[w] = "check1" THEN mc_gets.data ELSE cache_metadata[w].data

Applies304(data, req) ==
    /\ req.if_modified_since # NoHeader
    /\ CanParse(req.if_modified_since)
    /\ parse_http_date(req.if_modified_since) >= parse_http_date(data.last_modified)

NotServable(data, req) ==
    \/ data = None
    \/ ~data.valid
    \/ req.time > data.fetched + EXPIRE_SECS
    \/ (~Applies304(data, req) /\ data.content_key \notin DOMAIN mc_content)

\* The first check returns (a response or None) rather than raising.
FirstCheckReturns(w) ==
    /\ pc[w] \in {"check1", "check1_content"}
    /\ pc'[w] \in {"ur_gets", "done"}
    /\ ~(pc'[w] = "done" /\ response'[w] = uncaught_exception("ValueError"))

\* C9: check_for_cache_response returns None exactly when the metadata is
\* missing, or not valid, or request_time > fetched + EXPIRE_SECS, or no 304
\* applies and the content record is absent.
C9_NotServableExactly ==
    [][\A w \in Workers :
         FirstCheckReturns(w)
            => ((pc'[w] = "ur_gets") <=> NotServable(CheckedData(w), request[w]))]_vars

\* C9 witness: a request made exactly EXPIRE_SECS after the fetch (the clock
\* stands at the request's time) has been served the stored content.
C9_Witness ==
    /\ pc[1] = "done"
    /\ response[1].status = "200 OK"
    /\ response[1].content = <<"stuff">>
    /\ mc_metadata # None
    /\ mc_metadata.data.valid
    /\ now = mc_metadata.data.fetched + EXPIRE_SECS

\* C10: for a valid, unexpired metadata and a request with a parseable
\* If-Modified-Since, the check answers 304 with no headers and no body iff
\* client_date >= last_modified, whatever the content key holds; otherwise it
\* goes on to the content lookup.
C10_NotModifiedIff ==
    [][\A w \in Workers :
         (/\ pc[w] = "check1"
          /\ pc'[w] # "check1"
          /\ mc_metadata # None
          /\ mc_metadata.data.valid
          /\ request[w].time <= mc_metadata.data.fetched + EXPIRE_SECS
          /\ request[w].if_modified_since # NoHeader
          /\ CanParse(request[w].if_modified_since))
            => IF parse_http_date(request[w].if_modified_since)
                     >= parse_http_date(mc_metadata.data.last_modified)
               THEN /\ pc'[w] = "done"
                    /\ response'[w].status = "304 Not Modified"
                    /\ response'[w].headers = << >>
                    /\ response'[w].content = << >>
               ELSE pc'[w] = "check1_content"]_vars

\* C10 witness: a 304 has been answered while the content record is absent.
C10_Witness ==
    /\ pc[1] = "done"
    /\ response[1].status = "304 Not Modified"
    /\ mc_metadata # None
    /\ mc_metadata.data.content_key \notin DOMAIN mc_content

\* C11: a request with a malformed If-Modified-Since header is answered like
\* one without the header: no ValueError leaves handle_request.
C11_MalformedHeaderNoError ==
    \A w \in Workers : response[w] # uncaught_exception("ValueError")

\* C12: in a sequential run the request that issues the n-th origin request
\* leaves, when it returns, a stored metadata with valid=true, reservation =
\* last_noted = n, the session drawn by the first request, and a content_key
\* under which the body of that n-th origin response is stored.
C12_SequentialFetchCounts ==
    [][/\ SeqLabels'
       /\ (pc[1] = "respond" /\ pc'[1] = "done")
            => /\ mc_metadata' # None
               /\ mc_metadata'.data.valid
               /\ mc_metadata'.data.reservation = origin_requests
               /\ mc_metadata'.data.last_noted = origin_requests
               /\ mc_metadata'.data.session = 1
               /\ mc_metadata'.data.content_key \in DOMAIN mc_content'
               /\ mc_content'[mc_metadata'.data.content_key].content
                     = server_response[1].content
               /\ response'[1].content = <<server_response[1].content>>]_vars

\* C12 witness: the third request that went to the origin has returned and the
\* metadata stands at reservation 3, pointing at a body that differs from the
\* first one.
C12_Witness ==
    /\ pc[1] = "done"
    /\ origin_requests = 3
    /\ mc_metadata # None
    /\ mc_metadata.data.reservation = 3
    /\ mc_metadata.data.last_noted = 3
    /\ mc_content[mc_metadata.data.content_key].content = "other stuff"

\* update_cache applies update_for_server_response to a metadata it has read:
\* the step, the metadata read, the metadata built, the digest of the new body.
UpdatesExisting(w) == pc[w] \in {"uc_gets", "uc_content"} /\ pc'[w] = "uc_cas"

ReadMetadata(w) == IF pc[w] = "uc_gets" THEN mc_gets.data ELSE cache_metadata[w].data

FetchedDigest(w) == sha256_digest(server_response[w].content)

\* update_cache's metadata write succeeds.
PublishesOwn(w) == pc[w] \in {"uc_cas", "uc_add"} /\ pc'[w] = "respond"

\* C13: when update_cache updates a metadata whose digest equals the digest of
\* the fetched body, last_modified and sha256_digest stay as read and as stored,
\* and fetched becomes the time of the update, whatever Last-Modified the origin
\* sent.
C13_SameDigestKeepsLastModified ==
    [][\A w \in Workers :
         /\ (UpdatesExisting(w) /\ ReadMetadata(w).sha256_digest = FetchedDigest(w))
               => /\ cache_metadata'[w].data.last_modified = ReadMetadata(w).last_modified
                  /\ cache_metadata'[w].data.sha256_digest = ReadMetadata(w).sha256_digest
                  /\ cache_metadata'[w].data.fetched = now
         /\ (pc[w] = "uc_cas" /\ pc'[w] = "respond"
               /\ mc_metadata.data.sha256_digest = FetchedDigest(w))
               => /\ mc_metadata'.data.last_modified = mc_metadata.data.last_modified
                  /\ mc_metadata'.data.sha256_digest = mc_metadata.data.sha256_digest
                  /\ mc_metadata'.data.fetched = cache_metadata[w].data.fetched
                  /\ mc_metadata'.data.fetched >= mc_metadata.data.fetched]_vars

\* C13 witness: an entry first fetched at time 0 has been re-fetched after a
\* clock jump with the same body and a later Last-Modified header from the
\* origin; the stored last_modified is still the first one.
C13_Witness ==
    /\ pc[1] = "respond"
    /\ server_response[1] = OkResponse("stuff", make_http_date(TickStep - 1))
    /\ mc_metadata # None
    /\ mc_metadata.data = cache_metadata[1].data
    /\ mc_metadata.data.last_modified = make_http_date(0)
    /\ mc_metadata.data.fetched >= TickStep

\* C14: when update_cache updates a metadata whose digest equals the digest of
\* the fetched body, the metadata keeps the content_key it had.
C14_SameDigestKeepsContentKey ==
    [][\A w \in Workers :
         (UpdatesExisting(w) /\ ReadMetadata(w).sha256_digest = FetchedDigest(w))
            => cache_metadata'[w].data.content_key = ReadMetadata(w).content_key]_vars

\* The last_modified update_cache is to give a body fetched with these headers
\* at this time.
OlderOfTimeAndHeader(time, headers) ==
    IF "Last-Modified" \notin DOMAIN headers
    THEN make_http_date(time)
    ELSE IF time <= headers["Last-Modified"].gmt
         THEN make_http_date(time)
         ELSE headers["Last-Modified"]

\* C15: whenever update_cache sets last_modified (a new metadata, or a digest
\* that differs from the one read), the value is the older of the update time
\* and the origin's Last-Modified header, or the update time without a header;
\* it is later than neither; it is the value stored and the Last-Modified the
\* client gets.
C15_LastModifiedOlderOfTimeAndHeader ==
    [][\A w \in Workers :
         /\ (\/ pc[w] = "uc_gets" /\ pc'[w] = "uc_add"
             \/ UpdatesExisting(w) /\ ReadMetadata(w).sha256_digest # FetchedDigest(w))
               => LET written == cache_metadata'[w].data.last_modified
                      headers == server_response[w].headers
                  IN  /\ written = OlderOfTimeAndHeader(now, headers)
                      /\ parse_http_date(written) <= now
                      /\ "Last-Modified" \in DOMAIN headers
                            => parse_http_date(written)
                                  <= parse_http_date(headers["Last-Modified"])
         /\ PublishesOwn(w)
               => mc_metadata'.data.last_modified = cache_metadata[w].data.last_modified
         /\ (pc[w] = "respond" /\ pc'[w] = "done"
               /\ response'[w] # uncaught_exception("AttributeError"))
               => response'[w].headers[1]
                     = <<"Last-Modified", cache_metadata[w].data.last_modified>>]_vars

\* C15 witness: a metadata built anew after the key was lost (reservation 0),
\* fetched one clock jump in, carries the origin's earlier Last-Modified, and a
\* client has been answered with that date.
C15_Witness ==
    \E w \in Workers :
        /\ pc[w] = "done"
        /\ response[w].status = "200 OK"
        /\ response[w].headers[1] = <<"Last-Modified", make_http_date(TickStep - 1)>>
        /\ mc_metadata # None
        /\ mc_metadata.data.last_modified = make_http_date(TickStep - 1)
        /\ mc_metadata.data.fetched = TickStep
        /\ mc_metadata.data.reservation = 0

\* A worker holds a not-OK origin response.
HoldsNotOk(w) == server_response[w] # None /\ ~server_response[w].ok

\* C16: with DROP_NOT_OK_STATUS set, a worker that gets a not-OK origin
\* response goes through the drop branch only: it writes no content record and
\* no metadata, its one store operation removes the metadata key, and the
\* client gets the origin's status and body.
C16_NotOkDroppedAndPassedOn ==
    [][\A w \in Workers :
         /\ (pc[w] = "issue" /\ pc'[w] # "issue" /\ ~server_response'[w].ok)
               => /\ DROP_NOT_OK_STATUS
                  /\ pc'[w] = "uc_drop"
                  /\ UNCHANGED store_vars
         /\ (HoldsNotOk(w) /\ pc'[w] # pc[w])
               => /\ mc_content' = mc_content
                  /\ last_metadata' = last_metadata
                  /\ \/ /\ pc[w] = "uc_drop"
                        /\ pc'[w] = "respond"
                        /\ mc_metadata' = None
                     \/ /\ pc[w] = "respond"
                        /\ pc'[w] = "done"
                        /\ mc_metadata' = mc_metadata
                        /\ response'[w].status = server_response[w].status
                        /\ response'[w].content = <<server_response[w].content>>]_vars

\* C16 witness: a client has been given the origin's 500 and the metadata key,
\* which held this worker's reservation, is absent.
C16_Witness ==
    \E w \in Workers :
        /\ pc[w] = "done"
        /\ response[w].status = NotOkResponse.status
        /\ response[w].content = <<NotOkResponse.content>>
        /\ last_metadata # None
        /\ mc_metadata = None
        /\ mc_content = << >>
        /\ evictions = 0

\* The content key of a worker's own (session, reservation) token.
OwnContentKey(w) ==
    <<"body", URL, reservation_token[w].session, reservation_token[w].reservation>>

\* C17: a worker that lost the contest and whose re-check returns None goes to
\* the origin itself; when its update_cache then writes the metadata, by cas on
\* the metadata it read or by add, the stored metadata is valid, points at the
\* content key of the worker's own token, and has last_noted equal to its
\* reservation, which under cas is the reservation that was in the store.
C17_LoserPublishesOwnFetch ==
    [][\A w \in Workers :
         /\ (~won[w] /\ pc[w] \in {"check2", "check2_content"} /\ pc'[w] # pc[w]
               /\ RecheckMisses(w))
               => pc'[w] = "issue"
         /\ (~won[w] /\ pc[w] = "issue" /\ pc'[w] = "uc_set")
               => origin_requests' = origin_requests + 1
         /\ (~won[w] /\ pc[w] = "uc_set" /\ pc'[w] # pc[w])
               => /\ OwnContentKey(w) \in DOMAIN mc_content'
                  /\ mc_content'[OwnContentKey(w)].content = server_response[w].content
         /\ (~won[w] /\ PublishesOwn(w))
               => /\ mc_metadata'.data.valid
                  /\ mc_metadata'.data.last_noted = mc_metadata'.data.reservation
                  /\ mc_metadata'.data.content_key = OwnContentKey(w)
                  /\ mc_metadata'.data.sha256_digest = FetchedDigest(w)
                  /\ pc[w] = "uc_cas"
                        => mc_metadata'.data.reservation = mc_metadata.data.reservation]_vars

\* C17 witness: the winner has not yet heard from the origin and its lone
\* reservation has been bumped by the loser, who has fetched and published:
\* valid, reservation 2, last_noted 2, under the loser's own key.
C17_Witness ==
    \E w, v \in Workers :
        /\ won[v] /\ pc[v] = "issue"
        /\ ~won[w] /\ pc[w] = "respond"
        /\ reservation_token[w] = [session |-> 1, reservation |-> 2]
        /\ mc_metadata # None
        /\ mc_metadata.data.valid
        /\ mc_metadata.data.reservation = 2
        /\ mc_metadata.data.last_noted = 2
        /\ mc_metadata.data.content_key = OwnContentKey(w)
        /\ evictions = 0

\* A worker is on the way from its first check to the end of its re-check.
BeforeOrigin(w) ==
    pc[w] \in {"check1", "check1_content", "ur_gets", "ur_cas", "ur_add", "wait", "check2",
               "check2_content"}

\* C18: a worker that lost the contest and whose re-check finds a servable
\* entry returns the cached response without an origin request; up to there
\* it has written no content record, and its only write is its reservation:
\* over a stored metadata it changes the reservation by one and nothing else.
C18_LoserServedByPeer ==
    [][\A w \in Workers :
         /\ (~won[w] /\ pc[w] \in {"check2", "check2_content"} /\ pc'[w] # pc[w]
               /\ ~RecheckMisses(w))
               => /\ pc'[w] \in {"check2_content", "done"}
                  /\ server_response[w] = None
                  /\ origin_requests' = origin_requests
                  /\ UNCHANGED store_vars
                  /\ (pc'[w] = "done" /\ pc[w] = "check2_content")
                        => response'[w] = from_cache_metadata(cache_metadata[w].data,
                                              mc_get(cache_metadata[w].data.content_key))
         /\ (BeforeOrigin(w) /\ pc'[w] # pc[w])
               => /\ mc_content' = mc_content
                  /\ origin_requests' = origin_requests
                  /\ mc_metadata' # mc_metadata
                        => /\ pc[w] \in {"ur_cas", "ur_add"}
                           /\ mc_metadata'.data = cache_metadata[w].data
                           /\ mc_metadata # None
                                 => mc_metadata'.data =
                                       [mc_metadata.data EXCEPT !.reservation = @ + 1]]_vars

\* C18 witness: of two concurrent requests the winner has fetched and
\* published, the loser has been answered 200 from the cache, and the origin
\* has been asked once.
C18_Witness ==
    \E w, v \in Workers :
        /\ won[v] /\ pc[v] = "done"
        /\ ~won[w] /\ pc[w] = "done" /\ reservation_token[w] # None
        /\ response[w].status = "200 OK"
        /\ requests = 2
        /\ origin_requests = 1
        /\ mc_metadata # None
        /\ mc_metadata.data.valid
        /\ mc_metadata.data.reservation = 2

\* C19: when update_cache, its own content stored, reads a metadata that can
\* already serve the request, it deletes the record under its own content key
\* and nothing else, writes no metadata, and returns the metadata it read.
C19_ParallelWinnerObserved ==
    [][\A w \in Workers :
         /\ (pc[w] = "uc_gets" /\ pc'[w] # pc[w]
               /\ metadata_verdict(mc_gets.data, request[w]) = "304")
               => pc'[w] = "uc_delete_content" /\ cache_metadata'[w].data = mc_gets.data
         /\ (pc[w] = "uc_content" /\ pc'[w] # pc[w]
               /\ mc_get(cache_metadata[w].data.content_key) # None)
               => /\ pc'[w] = "uc_delete_content"
                  /\ cache_metadata'[w].data = cache_metadata[w].data
         /\ (pc[w] \in {"uc_gets", "uc_content"} /\ pc'[w] # pc[w])
               => UNCHANGED store_vars
         /\ (pc[w] = "uc_delete_content" /\ pc'[w] # pc[w])
               => /\ pc'[w] = "respond"
                  /\ OwnContentKey(w) \notin DOMAIN mc_content'
                  /\ \A k \in DOMAIN mc_content \ {OwnContentKey(w)} :
                        k \in DOMAIN mc_content' /\ mc_content'[k] = mc_content[k]
                  /\ mc_metadata' = mc_metadata
                  /\ last_metadata' = last_metadata
                  /\ cache_metadata'[w] = cache_metadata[w]
                  /\ cache_metadata[w].data.valid]_vars

\* C19 witness: a worker that stored its own content has found a peer's
\* published entry, removed its own record and holds the peer's metadata,
\* whose content is still in the store.
C19_Witness ==
    \E w \in Workers :
        /\ pc[w] = "respond"
        /\ server_response[w] # None
        /\ server_response[w].ok
        /\ OwnContentKey(w) \notin DOMAIN mc_content
        /\ mc_metadata # None
        /\ mc_metadata.data = cache_metadata[w].data
        /\ mc_metadata.data.content_key # OwnContentKey(w)
        /\ mc_metadata.data.content_key \in DOMAIN mc_content
        /\ evictions = 0

\* A worker's store_metadata is about to fail: its cas finds another token
\* under the key, or its add finds the key taken.
FailingWrite(w) ==
    \/ pc[w] \in {"ur_cas", "uc_cas"} /\ mc_metadata # None
          /\ mc_metadata.etag # cache_metadata[w].etag
    \/ pc[w] \in {"ur_add", "uc_add"} /\ mc_metadata # None

\* C20: a loop of update_reservation or of update_cache whose store_metadata
\* fails goes round again until it has failed UPDATE_MAX_ATTEMPTS times; the
\* failure that makes that number ends the request with status '500 Internal
\* Server Error', no headers and an empty body, and a 500 of that kind has no
\* other origin; no loop starts an iteration after UPDATE_MAX_ATTEMPTS failures.
C20_AttemptsBounded ==
    [][\A w \in Workers :
         /\ attempts'[w] < UPDATE_MAX_ATTEMPTS
         /\ (FailingWrite(w) /\ pc'[w] # pc[w])
               => IF attempts[w] = UPDATE_MAX_ATTEMPTS - 1
                  THEN /\ pc'[w] = "done"
                       /\ response'[w] = [status |-> "500 Internal Server Error",
                                          headers |-> << >>,
                                          content |-> << >>]
                  ELSE /\ pc'[w] = (IF pc[w] \in {"ur_cas", "ur_add"} THEN "ur_gets"
                                                                     ELSE "uc_gets")
                       /\ attempts'[w] = attempts[w] + 1
         /\ (pc[w] # "done" /\ pc'[w] = "done"
               /\ response'[w].status = "500 Internal Server Error")
               => FailingWrite(w) /\ attempts[w] = UPDATE_MAX_ATTEMPTS - 1
         /\ RetryLabels']_vars

\* C20 witness: update_reservation has failed UPDATE_MAX_ATTEMPTS times in a
\* row against reserving peers and the client has been given the 500.
C20_Witness ==
    /\ pc[1] = "done"
    /\ response[1] = from_internal_error
    /\ reservation_token[1] = None
    /\ mc_metadata # None
    /\ mc_metadata.data.reservation >= UPDATE_MAX_ATTEMPTS

\* The same in update_cache: the worker holds a reservation and has failed
\* UPDATE_MAX_ATTEMPTS times to publish.
C20_UpdateCacheExhausted ==
    /\ pc[1] = "done"
    /\ response[1] = from_internal_error
    /\ reservation_token[1] # None

\* ------------------------------------------- the same request, twice in a row
\* Two requests with the same headers reach the cache at the same second; the
\* second one is handled once the first one has its response.  No time passes,
\* nothing is evicted and the origin answers with an OK response.  The store is
\* empty, or holds the entry of an earlier fetch, fresh (now = 0) or expired.
InitTwice ==
    /\ \E warm \in BOOLEAN :
         IF warm
         THEN /\ mc_metadata = [data |-> WarmMetadata, etag |-> 1]
              /\ mc_content = (WarmContent.content_key :> stored_content(WarmContent))
              /\ last_metadata = WarmMetadata
              /\ clock_reads = 1
         ELSE /\ mc_metadata = None
              /\ mc_content = << >>
              /\ last_metadata = None
              /\ clock_reads = 0
    /\ now \in {0, TickStep}
    /\ evictions = 0
    /\ requests = 2
    /\ origin_requests = 0
    /\ pc = [w \in Workers |-> "check1"]
    /\ \E ims \in IfModifiedSinceValues :
         request = [w \in Workers |-> [time |-> now, if_modified_since |-> ims]]
    /\ cache_metadata = [w \in Workers |-> None]
    /\ attempts = [w \in Workers |-> 0]
    /\ won = [w \in Workers |-> FALSE]
    /\ reservation_token = [w \in Workers |-> None]
    /\ stop = [w \in Workers |-> 0]
    /\ server_response = [w \in Workers |-> None]
    /\ response = [w \in Workers |-> None]

NextTwice ==
    \/ FirstCheck(1)
    \/ FirstCheckContent(1)
    \/ UpdateReservationGets(1)
    \/ UpdateReservationCas(1)
    \/ UpdateReservationAdd(1)
    \/ IssueOkServerRequest(1)
    \/ UpdateCacheSet(1)
    \/ UpdateCacheGets(1)
    \/ UpdateCacheCas(1)
    \/ Respond(1)
    \/ pc[1] = "done" /\ FirstCheck(2)
    \/ pc[1] = "done" /\ FirstCheckContent(2)

SpecTwice == InitTwice /\ [][NextTwice]_vars

\* The second request is answered by its first look at the cache.
TwiceLabels == pc[2] \in {"check1", "check1_content", "done"}

\* The second request's steps leave the store and the origin alone.
SecondLeavesStore ==
    pc'[2] # pc[2] => /\ TwiceLabels'
                      /\ UNCHANGED <<mc_metadata, mc_content, origin_requests>>

\* The second request gets its response, its If-Modified-Since being absent or
\* well formed.
SecondAnswered ==
    /\ pc[2] # "done"
    /\ pc'[2] = "done"
    /\ request[2].if_modified_since # Malformed

ReservationReturns(w) ==
    /\ pc[w] \in {"ur_cas", "ur_add"}
    /\ pc'[w] \in {"issue", "wait"}

HeaderText ==
    ("Vary" :> "Accept-Encoding") @@ ("Server" :> "Apache") @@ ("Keep-Alive" :> "timeout=5") @@
    ("Connection" :> "Keep-Alive") @@ ("Transfer-Encoding" :> "chunked") @@
    ("Content-Encoding" :> "gzip") @@ ("Content-Type" :> "text/html") @@
    ("Content-Language" :> "en")

HeadersFetched == 3

OriginHeaders ==
    {[header \in names |-> IF header = "Last-Modified"
                           THEN make_http_date(HeadersFetched + 2)
                           ELSE HeaderText[header]] :
        names \in SUBSET ({"Last-Modified"} \cup DOMAIN HeaderText)}

HeadersContent(headers) ==
    content_from_server_response([OkResponse("stuff", NoHeader) EXCEPT !.headers = headers],
                                 URL, [session |-> 1, reservation |-> 1])

InitHeaders ==
    /\ \E headers \in OriginHeaders :
         LET content_entry == HeadersContent(headers)
             data == update_for_server_response(new_reservation(URL, 1), content_entry,
                                                HeadersFetched)
         IN  /\ mc_metadata = [data |-> data, etag |-> 1]
             /\ mc_content = (content_entry.content_key :> stored_content(content_entry))
             /\ last_metadata = data
    /\ clock_reads = 1
    /\ now = HeadersFetched
    /\ evictions = 0
    /\ requests = 1
    /\ origin_requests = 1
    /\ pc = [w \in Workers |-> IF w = 1 THEN "check1" ELSE "idle"]
    /\ request = [w \in Workers |->
                     IF w = 1 THEN [time |-> now, if_modified_since |-> NoHeader] ELSE None]
    /\ cache_metadata = [w \in Workers |-> None]
    /\ attempts = [w \in Workers |-> 0]
    /\ won = [w \in Workers |-> FALSE]
    /\ reservation_token = [w \in Workers |-> None]
    /\ stop = [w \in Workers |-> 0]
    /\ server_response = [w \in Workers |-> None]
    /\ response = [w \in Workers |-> None]

NextHeaders == FirstCheck(1) \/ FirstCheckContent(1)

SpecHeaders == InitHeaders /\ [][NextHeaders]_vars

\* The positions of a header name in a response's header list.
HeaderPositions(headers, name) == {i \in 1..Len(headers) : headers[i][1] = name}

\* The origin's headers the claim says a response does not carry.
NotPassedOn ==
    {"Last-Modified", "Vary", "Server", "Keep-Alive", "Connection", "Transfer-Encoding",
     "Content-Encoding"}

\* C23: a response built from a metadata and its content has exactly one
\* Last-Modified header, with the metadata's last_modified as its value; it has
\* none of the origin's Last-Modified, Vary, Server, Keep-Alive, Connection,
\* Transfer-Encoding and Content-Encoding headers; and it has every other
\* header of the origin once, with the origin's value, and nothing else.
C23_HeadersOfCachedResponse ==
    pc[1] = "done"
       => LET built == response[1].headers
              origin == mc_content[mc_metadata.data.content_key].headers
          IN  /\ response[1].status = "200 OK"
              /\ HeaderPositions(built, "Last-Modified") = {1}
              /\ built[1][2] = mc_metadata.data.last_modified
              /\ \A i \in 2..Len(built) :
                    /\ built[i][1] \notin NotPassedOn
                    /\ built[i][1] \in DOMAIN origin
                    /\ built[i][2] = origin[built[i][1]]
              /\ \A header \in DOMAIN origin :
                    header \notin NotPassedOn
                       => Cardinality(HeaderPositions(built, header)) = 1

\* C23 witness: the origin sent all nine headers, with a Last-Modified later
\* than the fetch; the response has the metadata's date and the two headers
\* that are passed on.
C23_Witness ==
    /\ pc[1] = "done"
    /\ DOMAIN mc_content[mc_metadata.data.content_key].headers
          = {"Last-Modified"} \cup DOMAIN HeaderText
    /\ mc_content[mc_metadata.data.content_key].headers["Last-Modified"]
          = make_http_date(HeadersFetched + 2)
    /\ Len(response[1].headers) = 3
    /\ response[1].headers[1] = <<"Last-Modified", make_http_date(HeadersFetched)>>
    /\ \E i \in 2..3 : /\ response[1].headers[i][1] = "Content-Type"
                       /\ response[1].headers[i][2] = "text/html"

\* ------------------------------------------------- one reservation attempt
\* A worker that found nothing servable enters update_reservation while the
\* store holds no metadata, a placeholder that up to MaxBacklog workers have
\* reserved on, or a published entry noted at any reservation and reserved on
\* by up to MaxBacklog workers since.  Nothing else moves.
ReservedContent == content_from_server_response(OkResponse("stuff", NoHeader), URL,
                                                [session |-> 1, reservation |-> 1])

ReservedMetadata ==
    {None} \cup
    {[new_reservation(URL, 1) EXCEPT !.reservation = r] : r \in 1..MaxBacklog} \cup
    {[metadata_from_server_response(URL, ReservedContent, 1, 0)
         EXCEPT !.last_noted = l, !.reservation = l + b] :
        l \in 0..MaxBacklog, b \in 0..MaxBacklog}

InitReserve ==
    /\ mc_metadata \in {IF data = None THEN None ELSE [data |-> data, etag |-> 1] :
                           data \in ReservedMetadata}
    /\ mc_content = << >>
    /\ last_metadata = mc_gets.data
    /\ clock_reads = 1
    /\ now = TickStep
    /\ evictions = 0
    /\ requests = 1
    /\ origin_requests = 0
    /\ pc = [w \in Workers |-> IF w = 1 THEN "ur_gets" ELSE "idle"]
    /\ request = [w \in Workers |->
                     IF w = 1 THEN [time |-> now, if_modified_since |-> NoHeader] ELSE None]
    /\ cache_metadata = [w \in Workers |-> None]
    /\ attempts = [w \in Workers |-> 0]
    /\ won = [w \in Workers |-> FALSE]
    /\ reservation_token = [w \in Workers |-> None]
    /\ stop = [w \in Workers |-> 0]
    /\ server_response = [w \in Workers |-> None]
    /\ response = [w \in Workers |-> None]

NextReserve ==
    \/ UpdateReservationGets(1)
    \/ UpdateReservationCas(1)
    \/ UpdateReservationAdd(1)

SpecReserve == InitReserve /\ [][NextReserve]_vars

\* C24: a worker that loses the reservation contest has written a metadata
\* whose reservation is at least last_noted + 2; its backoff draw is an integer
\* from 0 to min((reservation - last_noted) * SLEEP_MULTIPLY_INTERVAL,
\* SLEEP_MAX_SECONDS), so its deadline is at most SLEEP_MAX_SECONDS after the
\* time of the draw.
C24_LoserBackoffRange ==
    [][(ReservationReturns(1) /\ ~won'[1])
          => LET written == mc_metadata'.data
                 backlog == written.reservation - written.last_noted
                 draw == stop'[1] - now
             IN  /\ pc'[1] = "wait"
                 /\ written = cache_metadata[1].data
                 /\ backlog >= 2
                 /\ draw \in 0..(IF backlog * SLEEP_MULTIPLY_INTERVAL < SLEEP_MAX_SECONDS
                                 THEN backlog * SLEEP_MULTIPLY_INTERVAL
                                 ELSE SLEEP_MAX_SECONDS)
                 /\ stop'[1] <= now + SLEEP_MAX_SECONDS]_vars

\* C24 witness: a loser seven or more reservations past the last one noted has
\* drawn the longest wait there is, SLEEP_MAX_SECONDS.
C24_Witness ==
    /\ pc[1] = "wait"
    /\ ~won[1]
    /\ mc_metadata.data.last_noted >= 1
    /\ mc_metadata.data.reservation - mc_metadata.data.last_noted >= 7
    /\ stop[1] = now + SLEEP_MAX_SECONDS

\* What ends a loser's wait: the deadline, or a poll that finds the metadata
\* missing or valid.
WaitIsOver(w) ==
    \/ stop[w] <= now
    \/ mc_metadata = None
    \/ mc_metadata.data.valid

\* C25: a losing worker leaves the backoff loop at the first turn of the loop at
\* which the metadata is missing or valid or the deadline has come, and at no
\* other turn; it leaves with won=false and the reservation token it got from
\* update_reservation, and the request enters neither the wait nor
\* update_reservation a second time.
C25_WaitEndsOnce ==
    /\ [](\A w \in Workers :
            pc[w] = "wait"
               => /\ ~won[w]
                  /\ ENABLED Poll(w)
                  /\ WaitIsOver(w) => ~ENABLED (Poll(w) /\ pc'[w] = "wait")
                  /\ ~WaitIsOver(w) => ~ENABLED (Poll(w) /\ pc'[w] # "wait"))
    /\ [][\A w \in Workers :
            /\ (pc[w] = "wait" /\ pc'[w] # "wait")
                  => /\ pc'[w] = "check2"
                     /\ WaitIsOver(w)
                     /\ ~won'[w]
                     /\ reservation_token'[w] = reservation_token[w]
                     /\ reservation_token[w] # None
            /\ (pc[w] # "wait" /\ pc'[w] = "wait")
                  => pc[w] \in {"ur_cas", "ur_add"}
            /\ (pc[w] \notin {"ur_gets", "ur_cas", "ur_add"} /\ pc'[w] = "ur_gets")
                  => pc[w] \in {"check1", "check1_content"}
            /\ pc[w] \in {"check2", "check2_content", "issue", "uc_drop", "uc_set", "uc_gets",
                          "uc_content", "uc_delete_content", "uc_cas", "uc_add", "respond"}
                  => pc'[w] \notin {"check1", "check1_content", "ur_gets", "ur_cas", "ur_add",
                                    "wait"}]_vars

\* C25 witness: a loser is in its wait, the deadline ten seconds ahead, and its
\* next poll finds the entry the winner has published over the loser's
\* reservation.
C25_Witness ==
    \E w \in Workers :
        /\ pc[w] = "wait"
        /\ ~won[w]
        /\ reservation_token[w].reservation = 2
        /\ stop[w] = now + 2 * SLEEP_MULTIPLY_INTERVAL
        /\ mc_metadata # None
        /\ mc_metadata.data.valid
        /\ mc_metadata.data.last_noted = 2
        /\ mc_metadata.data.reservation = 2

LiveIssueServerRequest(w) ==
    IssueServerRequest(w) /\ server_response'[w] \in {OkResponse("stuff", NoHeader), NotOkResponse}

HandlerStep(w) ==
    \/ FirstCheck(w)
    \/ FirstCheckContent(w)
    \/ UpdateReservationGets(w)
    \/ UpdateReservationCas(w)
    \/ UpdateReservationAdd(w)
    \/ Poll(w)
    \/ Recheck(w)
    \/ RecheckContent(w)
    \/ LiveIssueServerRequest(w)
    \/ UpdateCacheDrop(w)
    \/ UpdateCacheSet(w)
    \/ UpdateCacheGets(w)
    \/ UpdateCacheContent(w)
    \/ UpdateCacheDeleteContent(w)
    \/ UpdateCacheCas(w)
    \/ UpdateCacheAdd(w)
    \/ Respond(w)

TimePasses ==
    /\ \/ now < MaxTicks * TickStep
       \/ \E w \in Workers : pc[w] = "wait" /\ stop[w] > now
    /\ now' = now + TickStep
    /\ UNCHANGED <<store_vars, clock_reads, evictions, requests, origin_requests, worker_vars>>

NextLive ==
    \/ \E w \in Workers : StartRequest(w)
    \/ \E w \in Workers : HandlerStep(w)
    \/ EvictMetadata(MaxEvictions)
    \/ EvictContent(MaxEvictions)
    \/ TimePasses

SpecLive ==
    /\ Init
    /\ [][NextLive]_vars
    /\ \A w \in Workers : WF_vars(HandlerStep(w))
    /\ WF_vars(TimePasses)

\* A request is being handled at the worker.
Handling(w) == pc[w] \notin {"idle", "done"}

\* The statuses of the responses handle_application hands to the client: from
\* the cache, from the origin, or the 500 of a ConsistencyError.
ClientStatuses ==
    {"200 OK", "304 Not Modified", NotOkResponse.status, from_internal_error.status}

\* C27: every handle_request execution eventually ends with a response for the
\* client: a cached 200 or 304, a response derived from the origin's, or the
\* 500 of a ConsistencyError.
C27_EndsWithClientResponse ==
    \A w \in Workers :
        Handling(w) ~> (pc[w] = "done" /\ response[w].status \in ClientStatuses)

\* Every handle_request execution eventually ends, with a response or with an
\* exception that leaves handle_application.
C27_Ends ==
    \A w \in Workers : Handling(w) ~> (pc[w] = "done")

ChangedFields(old, new) ==
    {f \in DOMAIN old \cup DOMAIN new :
        \/ f \notin DOMAIN old
        \/ f \notin DOMAIN new
        \/ old[f] # new[f]}

\* C29: update_reservation's write over an existing metadata changes the
\* reservation field, by +1, and no other: valid, session, last_noted, fetched,
\* last_modified, sha256_digest and content_key are stored as they were read;
\* an expired entry stays valid=true while workers reserve on it.
C29_ReservationFrame ==
    [][\A w \in Workers :
         (pc[w] = "ur_cas" /\ ReservationReturns(w))
            => LET over == mc_metadata.data
                   written == mc_metadata'.data
               IN  /\ ChangedFields(over, written) = {"reservation"}
                   /\ written.reservation = over.reservation + 1
                   /\ written.valid = over.valid
                   /\ written.session = over.session
                   /\ written.last_noted = over.last_noted
                   /\ over.valid => /\ written.fetched = over.fetched
                                    /\ written.last_modified = over.last_modified
                                    /\ written.sha256_digest = over.sha256_digest
                                    /\ written.content_key = over.content_key]_vars

\* C29 witness: both workers have reserved on the expired entry, one after the
\* other: it is still the entry that was fetched, valid, with reservation 3.
C29_Witness ==
    /\ mc_metadata # None
    /\ mc_metadata.data = [WarmMetadata EXCEPT !.reservation = 3]
    /\ mc_metadata.data.valid
    /\ now > mc_metadata.data.fetched + EXPIRE_SECS
    /\ \E w1, w2 \in Workers : /\ pc[w1] = "issue" /\ won[w1]
                               /\ pc[w2] = "wait" /\ ~won[w2]

\* ------------------------------------------ contention with the key in place
\* The workers of Spec while the metadata key is neither evicted nor deleted:
\* the origin answers every request with the plain OK response (a not-OK one
\* makes update_cache delete the key) and the store evicts content entries only.
\* QuietLabels says the workers then take no step but those of NextQuiet.
QuietIssueServerRequest(w) ==
    IssueServerRequest(w) /\ server_response'[w] = OkResponse("stuff", NoHeader)

QuietStep(w) ==
    \/ StartRequestUpTo(w, MaxQuietRequests)
    \/ FirstCheck(w)
    \/ FirstCheckContent(w)
    \/ UpdateReservationGets(w)
    \/ UpdateReservationCas(w)
    \/ UpdateReservationAdd(w)
    \/ Poll(w)
    \/ Recheck(w)
    \/ RecheckContent(w)
    \/ QuietIssueServerRequest(w)
    \/ UpdateCacheSet(w)
    \/ UpdateCacheGets(w)
    \/ UpdateCacheContent(w)
    \/ UpdateCacheDeleteContent(w)
    \/ UpdateCacheCas(w)
    \/ Respond(w)

NextQuiet ==
    \/ \E w \in Workers : QuietStep(w)
    \/ EvictContent(MaxEvictions)
    \/ TickUpTo(MaxQuietTicks)

SpecQuiet == Init /\ [][NextQuiet]_vars

QuietLabels == \A w \in Workers : pc[w] \notin {"uc_drop", "uc_add"}

\* The metadata in the store is as a publication left it: no update_reservation
\* has been written since (a publication notes the reservation it read, and
\* every reservation written is above what is noted).
NoneReservedSince ==
    /\ mc_metadata # None
    /\ mc_metadata.data.valid
    /\ mc_metadata.data.reservation = mc_metadata.data.last_noted

\* C30: while the metadata key is neither evicted nor deleted, of the
\* update_reservation calls written between one publication by update_cache and
\* the next, and of those before the first one, exactly the first one written
\* returns won=true.  The metadata is written by update_reservation and by
\* update_cache's publication only; a publication leaves reservation =
\* last_noted, a reservation written raises the reservation above last_noted and
\* leaves last_noted alone; and update_reservation returns won=true iff it
\* writes to the absent key or over a metadata as a publication left it.
C30_OneWinnerPerPublication ==
    [][/\ QuietLabels'
       /\ mc_metadata # None => mc_metadata' # None
       /\ mc_metadata' # mc_metadata
             => \E w \in Workers : ReservationReturns(w) \/ PublishesOwn(w)
       /\ \A w \in Workers :
            /\ PublishesOwn(w)
                  => /\ mc_metadata # None
                     /\ mc_metadata' # mc_metadata
                     /\ NoneReservedSince'
            /\ ReservationReturns(w)
                  => /\ mc_metadata' # mc_metadata
                     /\ ~NoneReservedSince'
                     /\ mc_metadata'.data.reservation > mc_metadata'.data.last_noted
                     /\ mc_metadata # None
                           => /\ mc_metadata'.data.last_noted = mc_metadata.data.last_noted
                              /\ mc_metadata'.data.reservation
                                    = mc_metadata.data.reservation + 1
                     /\ won'[w] <=> (mc_metadata = None \/ NoneReservedSince)]_vars

\* C30 witness: since the last publication (last_noted 1) both workers have
\* reserved on the expired entry: the first one written won, the second lost.
C30_Witness ==
    \E w1, w2 \in Workers :
        /\ mc_metadata # None
        /\ mc_metadata.data.valid
        /\ mc_metadata.data.last_noted = 1
        /\ mc_metadata.data.reservation = 3
        /\ won[w1] /\ reservation_token[w1].reservation = 2 /\ pc[w1] = "issue"
        /\ ~won[w2] /\ reservation_token[w2].reservation = 3 /\ pc[w2] = "wait"

\* The content key the stored metadata refers to, when that metadata is valid.
ReferencedKeys ==
    IF mc_metadata # None /\ mc_metadata.data.valid
    THEN {mc_metadata.data.content_key}
    ELSE {}

\* The worker's step is a set or a delete on the content key of its own token.
WritesOwnContent(w) ==
    \/ pc[w] = "uc_set" /\ pc'[w] = "uc_gets"
    \/ pc[w] = "uc_delete_content" /\ pc'[w] = "respond"

\* C31: no worker sets or deletes the content record that the stored valid
\* metadata refers to by its content_key; the record changes or goes only by
\* an eviction, and while it is in the store its digest is the metadata's
\* sha256_digest.
C31_ReferencedContentUntouched ==
    /\ [](\A key \in ReferencedKeys :
             key \in DOMAIN mc_content
                => sha256_digest(mc_content[key].content) = mc_metadata.data.sha256_digest)
    /\ [][/\ \A w \in Workers :
                WritesOwnContent(w) => OwnContentKey(w) \notin ReferencedKeys
          /\ \A key \in ReferencedKeys :
                (key \in DOMAIN mc_content /\ evictions' = evictions)
                   => /\ key \in DOMAIN mc_content'
                      /\ mc_content'[key] = mc_content[key]]_vars

\* The content entry from_cache_metadata gets from the metadata update_cache
\* returned: the one the metadata object holds, or the one its lazy load finds.
RespondContent(w) ==
    IF cache_metadata[w].content_entry # None
    THEN cache_metadata[w].content_entry
    ELSE mc_get(cache_metadata[w].data.content_key)

\* C32: whenever handle_request reaches WSGIResponse.from_cache_metadata with
\* the metadata update_cache returned, that metadata's content entry is there,
\* also when the metadata is a peer's that update_cache found servable by the
\* If-Modified-Since rule alone and whose content has been evicted.
C32_ContentPresentAtRespond ==
    [][\A w \in Workers :
         (pc[w] = "respond" /\ pc'[w] = "done")
            => /\ RespondContent(w) # None
               /\ response'[w] = from_cache_metadata(cache_metadata[w].data,
                                                     RespondContent(w))]_vars

\* The store holds a valid metadata that has not expired.
FreshEntryStored ==
    /\ mc_metadata # None
    /\ mc_metadata.data.valid
    /\ now <= mc_metadata.data.fetched + EXPIRE_SECS

\* C33: update_cache's delete of the metadata on a not-OK origin response never
\* removes a valid, unexpired metadata that another worker has published since
\* the deleting worker reserved: what is in the store at the delete is no such
\* entry.
C33_DropSparesPublishedEntry ==
    [][\A w \in Workers :
         (pc[w] = "uc_drop" /\ pc'[w] = "respond")
            => ~FreshEntryStored]_vars

\* C34: a request served at the first cache check, with the 200 built from the
\* cache or with the 304, has made no write and no delete in the store and no
\* origin request: its steps are its arrival, the gets of the metadata and the
\* get of the content, each of which leaves the metadata, every content record
\* and the origin alone, and it ends without a reservation token.
C34_FirstCheckReadsOnly ==
    [][\A w \in Workers :
         /\ (pc[w] \in {"check1", "check1_content"} /\ pc'[w] # pc[w])
               => UNCHANGED <<mc_metadata, mc_content, last_metadata, origin_requests>>
         /\ (pc[w] # "check1" /\ pc'[w] = "check1")
               => /\ pc[w] \in {"idle", "done"}
                  /\ reservation_token'[w] = None
                  /\ UNCHANGED <<mc_metadata, mc_content, last_metadata, origin_requests>>
         /\ (pc[w] # "check1_content" /\ pc'[w] = "check1_content")
               => pc[w] = "check1"
         /\ (pc[w] \in {"check1", "check1_content"} /\ pc'[w] = "done")
               => /\ reservation_token'[w] = None
                  /\ ~won'[w]
                  /\ response'[w].status \in {"200 OK", "304 Not Modified", "ValueError"}
                  /\ pc[w] = "check1_content"
                        => /\ cache_metadata[w].data.content_key \in DOMAIN mc_content
                           /\ response'[w] = from_cache_metadata(cache_metadata[w].data,
                                                 mc_content[cache_metadata[w].data.content_key])]_vars

\* C34 witness: the second request has been served the cached body at its first
\* check; the origin was asked once, by the first request, and the entry is as
\* that request published it.
C34_Witness ==
    \E w \in Workers :
        /\ pc[w] = "done"
        /\ reservation_token[w] = None
        /\ response[w].status = "200 OK"
        /\ response[w].content = <<"stuff">>
        /\ requests = 2
        /\ origin_requests = 1
        /\ mc_metadata # None
        /\ mc_metadata.data.valid
        /\ mc_metadata.data.reservation = 1
        /\ mc_metadata.data.last_noted = 1
        /\ mc_metadata.data.content_key \in DOMAIN mc_content

====
